---- MODULE Spec2Model ----
(***************************************************************************)
(* The URL risk assessment pipeline of phishing-defense:                   *)
(*   core/api_client.py  - sliding-window rate limiter, VirusTotal         *)
(*                         submit/poll client, result construction         *)
(*   ui/scanner_tab.py   - the orchestrator ScannerTab._run_scan           *)
(*                                                                         *)
(* Time is counted in ticks of half a second, the granularity of every     *)
(* duration in the code (60.0 s window, 0.5 s margin, 5 s poll delay).     *)
(* Scores are integers: risk_score in hundredths (round(x, 2)) and         *)
(* confidence in thousandths (round(x, 3)).                                *)
(***************************************************************************)
EXTENDS Integers, Sequences, FiniteSets, TLC

VARIABLES
    clock,          \* time.time(), in ticks
    late,           \* ticks by which sleeps have returned late so far
    api_key,        \* os.getenv("VIRUSTOTAL_API_KEY"), stripped
    _model,         \* ml_engine._model is not None (the cached model)
    _request_times, \* api_client._request_times
    _rate_lock,     \* api_client._rate_lock: the holding thread, or "free"
    recent,         \* the last admissions, oldest first: [time, waited]
    admitted,       \* number of admissions so far (saturating)
    pc,             \* per thread: the statement it is at
    caller,         \* per thread: who called scan_url
    url,            \* per thread: the url argument
    calls,          \* number of calls started
    abandoned,      \* per thread: acquisitions and polls made when the caller gave
                    \* up waiting for this scan_url, or -1
    _scanning,      \* ScannerTab._scanning
    queued,         \* result_ready signals emitted and not yet delivered
    now,            \* per thread: local `now` of _rate_limit_wait
    wake,           \* per thread: end of the current time.sleep
    waited,         \* per thread: the current _rate_limit_wait sleeps
    attempt,        \* per thread: iteration of `for _ in range(12)` (0: submitting)
    reply,          \* per thread: the HTTP response being handled
    swallowed,      \* per thread: a failed poll was passed over in this scan_url
    outcome,        \* per thread: how scan_url ended
    acquired,       \* per thread: _rate_limit_wait calls completed by this scan_url
    delays,         \* per thread: time.sleep(5) calls completed by this scan_url
    polls,          \* per thread: GET requests issued by this scan_url
    posts,          \* per thread: POST requests issued by this scan_url
    result,         \* per thread: local `result` of _run_scan
    emitted,        \* per thread: results sent through result_ready by this call
    escaped,        \* per thread: the exception that left _run_scan, if any
    stats_in,       \* argument of the _build_result call under study
    built,          \* its return value
    invoked,        \* per thread: the engines this _run_scan has called, in order
    produced,       \* per thread: the engine that returned a result, and the result
    norm_in,        \* argument of the _normalize_url call under study
    norm_out,       \* how it ended
    norm_again,     \* how _normalize_url of its return value ended
    heur_in,        \* argument of the analyze_url call under study
    heur_out        \* how it ended

timeVars == << clock, late >>
envVars == << api_key, _model >>
limiterVars == << _request_times, _rate_lock, recent, admitted >>
callVars == << caller, url, calls, abandoned, _scanning, queued >>
waitVars == << now, wake, waited >>
scanVars == << attempt, reply, swallowed, outcome, acquired, delays, polls, posts >>
runVars == << result, emitted, escaped >>
buildVars == << stats_in, built >>
engineVars == << invoked, produced >>
normVars == << norm_in, norm_out, norm_again >>
heurVars == << heur_in, heur_out >>
pureVars == << buildVars, normVars, heurVars >>

vars == << timeVars, envVars, limiterVars, pc, callVars, waitVars, scanVars, runVars,
           engineVars, pureVars >>

----------------------------------------------------------------------------
(* Program constants *)

_RATE_LIMIT == 4
_RATE_WINDOW == 60
MARGIN_TICKS == 1
POLL_SLEEP == 5
POLL_ATTEMPTS == 12
CONFIDENCE_SCALE == 70
KEY_MIN_LEN == 32
SAFE_BELOW == 15
SUSPICIOUS_BELOW == 50
ML_SAFE_BELOW == 30
ML_SUSPICIOUS_BELOW == 65

(* Bounds of the model *)

MaxClock == 400
MaxClockPair == 140
MaxCalls == 2
MaxLate == 1
MaxCount == 2
MaxWaits == 6

Threads == {"t1", "t2"}

Ticks(seconds) == 2 * seconds

Max(a, b) == IF a >= b THEN a ELSE b
Min(a, b) == IF a <= b THEN a ELSE b

----------------------------------------------------------------------------
(* Values *)

\* An exception: its class and its message.
Exc(type, msg) == [type |-> type, msg |-> msg]

NoExc == Exc("none", "")

\* The empty dict `{}`.
EmptyResult ==
    [risk_score |-> 0, classification |-> "", confidence |-> 0, engine |-> "",
     engines |-> 0, api_used |-> "absent", reasoning |-> << >>, stats |-> << >>]

Stats(m, s, h, u) == [malicious |-> m, suspicious |-> s, harmless |-> h, undetected |-> u]

\* round(n / d, 0) as Python rounds: to nearest, ties to even.
RoundHalfEven(n, d) ==
    LET q == n \div d
        r == n % d
    IN  IF 2 * r < d THEN q
        ELSE IF 2 * r > d THEN q + 1
        ELSE IF q % 2 = 0 THEN q ELSE q + 1

----------------------------------------------------------------------------
(* api_client.py *)

\* The credential values that matter: unset/blank, shorter than 32, 32 or more.
KeyLen(key) == CASE key = "unset" -> 0 [] key = "short" -> KEY_MIN_LEN - 1 [] OTHER -> KEY_MIN_LEN

_get_api_key(key) == IF KeyLen(key) > 0 THEN key ELSE "None"

api_key_available(key) == _get_api_key(key) # "None" /\ KeyLen(key) >= KEY_MIN_LEN

\* [t for t in _request_times if now - t < _RATE_WINDOW]
Prune(times, n) == SelectSeq(times, LAMBDA t : n - t < Ticks(_RATE_WINDOW))

AtCapacityOffByOne(times) == Len(times) > _RATE_LIMIT

AtCapacity(times) == Len(times) >= _RATE_LIMIT

SleepTimeNoMargin(times, n) == Ticks(_RATE_WINDOW) - (n - times[1])

\* _RATE_WINDOW - (now - _request_times[0]) + 0.5
SleepTime(times, n) == Ticks(_RATE_WINDOW) - (n - times[1]) + MARGIN_TICKS

\* The classification of a reputation result.
Classify(risk_score) ==
    IF risk_score < 100 * SAFE_BELOW THEN "Safe"
    ELSE IF risk_score < 100 * SUSPICIOUS_BELOW THEN "Suspicious"
    ELSE "Phishing"

TotalEngines(stats) ==
    LET sum == stats.malicious + stats.suspicious + stats.harmless + stats.undetected
    IN  IF sum = 0 THEN 1 ELSE sum

RiskScoreMaliciousOnly(stats) ==
    RoundHalfEven(10000 * stats.malicious, TotalEngines(stats))

\* round(detection_ratio * 100, 2), in hundredths
RiskScore(stats) ==
    RoundHalfEven(10000 * (stats.malicious + stats.suspicious), TotalEngines(stats))

\* round(min(total_engines / 70, 1.0), 3), in thousandths
Confidence(stats) ==
    IF TotalEngines(stats) >= CONFIDENCE_SCALE THEN 1000
    ELSE RoundHalfEven(1000 * TotalEngines(stats), CONFIDENCE_SCALE)

_build_result(stats) ==
    [risk_score |-> RiskScore(stats),
     classification |-> Classify(RiskScore(stats)),
     confidence |-> Confidence(stats),
     engine |-> "VirusTotal API",
     engines |-> TotalEngines(stats),
     api_used |-> "true",
     reasoning |-> << "VirusTotal detection", "Detection ratio", "Harmless, Undetected" >>,
     stats |-> stats]


----------------------------------------------------------------------------
(* Text: a str is the sequence of its characters                           *)

Digit == {"0", "1", "2", "3", "4", "5", "6", "7", "8", "9"}

DigitValue(c) ==
    CASE c = "0" -> 0 [] c = "1" -> 1 [] c = "2" -> 2 [] c = "3" -> 3 [] c = "4" -> 4
      [] c = "5" -> 5 [] c = "6" -> 6 [] c = "7" -> 7 [] c = "8" -> 8 [] OTHER -> 9

DigitChar(n) == CHOOSE c \in Digit : DigitValue(c) = n

\* int(s) for a str of digits
IntOf(s) ==
    LET value[i \in 0 .. Len(s)] ==
            IF i = 0 THEN 0 ELSE 10 * value[i - 1] + DigitValue(s[i])
    IN  value[Len(s)]

\* str(n) for an int n >= 0
RECURSIVE StrOf(_)
StrOf(n) == IF n < 10 THEN << DigitChar(n) >> ELSE StrOf(n \div 10) \o << DigitChar(n % 10) >>

\* s.isdigit(), false for the empty str
IsDigits(s) == s # << >> /\ \A i \in DOMAIN s : s[i] \in Digit

Upper == {"A", "B", "C", "D", "E", "F", "H", "M", "O", "P", "S", "T"}

LowerChar(c) ==
    CASE c = "A" -> "a" [] c = "B" -> "b" [] c = "C" -> "c" [] c = "D" -> "d"
      [] c = "E" -> "e" [] c = "F" -> "f" [] c = "H" -> "h" [] c = "M" -> "m"
      [] c = "O" -> "o" [] c = "P" -> "p" [] c = "S" -> "s" [] c = "T" -> "t"
      [] OTHER -> c

\* s.lower()
Lower(s) == [i \in DOMAIN s |-> LowerChar(s[i])]

SetMin(S) == CHOOSE x \in S : \A y \in S : x <= y
SetMax(S) == CHOOSE x \in S : \A y \in S : x >= y

\* Index of the first (last) character of s that is in cs, or 0.
FirstOf(s, cs) ==
    LET at == { i \in DOMAIN s : s[i] \in cs } IN IF at = {} THEN 0 ELSE SetMin(at)

LastOf(s, cs) ==
    LET at == { i \in DOMAIN s : s[i] \in cs } IN IF at = {} THEN 0 ELSE SetMax(at)

Has(s, c) == FirstOf(s, {c}) # 0

\* s.strip(): whitespace is the blank here
Strip(s) ==
    LET at == { i \in DOMAIN s : s[i] # " " }
    IN  IF at = {} THEN << >> ELSE SubSeq(s, SetMin(at), SetMax(at))

\* s.rstrip(c)
RStrip(s, c) ==
    LET at == { i \in DOMAIN s : s[i] # c }
    IN  IF at = {} THEN << >> ELSE SubSeq(s, 1, SetMax(at))

\* s.startswith(p)
StartsWith(s, p) == Len(s) >= Len(p) /\ SubSeq(s, 1, Len(p)) = p

\* s.endswith(p)
EndsWith(s, p) == Len(s) >= Len(p) /\ SubSeq(s, Len(s) - Len(p) + 1, Len(s)) = p

\* The parts of s.partition(c): before the first c, and after it.
Before(s, c) == IF Has(s, c) THEN SubSeq(s, 1, FirstOf(s, {c}) - 1) ELSE s
After(s, c) == IF Has(s, c) THEN SubSeq(s, FirstOf(s, {c}) + 1, Len(s)) ELSE << >>

\* s.rpartition(c)[2]
AfterLast(s, c) == IF Has(s, c) THEN SubSeq(s, LastOf(s, {c}) + 1, Len(s)) ELSE s

HTTP == <<"h", "t", "t", "p", ":", "/", "/">>
HTTPS == <<"h", "t", "t", "p", "s", ":", "/", "/">>

----------------------------------------------------------------------------
(* urllib.parse.urlparse, as far as api_client and heuristic_engine use it, *)
(* on a str that starts with http:// or https://                            *)

\* The bracketed hosts that ipaddress.ip_address accepts as IPv6, among
\* those the inputs are made of.
Ipv6Literals == { <<":", ":", "1">> }

SchemeOf(u) == Lower(Before(u, ":"))

\* What follows "scheme://".
AfterScheme(u) == SubSeq(u, Len(Before(u, ":")) + 4, Len(u))

\* _splitnetloc: the netloc ends at the first of / ? #
NetlocOf(u) ==
    LET rest == AfterScheme(u)
        stop == FirstOf(rest, {"/", "?", "#"})
    IN  IF stop = 0 THEN rest ELSE SubSeq(rest, 1, stop - 1)

AfterNetloc(u) ==
    LET rest == AfterScheme(u) IN SubSeq(rest, Len(NetlocOf(u)) + 1, Len(rest))

\* urlsplit raises ValueError: brackets that do not pair up, or a bracketed
\* host that is not an IPv6 address.
UrlsplitRaises(u) ==
    LET netloc == NetlocOf(u)
    IN  \/ Has(netloc, "[") /\ ~Has(netloc, "]")
        \/ Has(netloc, "]") /\ ~Has(netloc, "[")
        \/ /\ Has(netloc, "[") /\ Has(netloc, "]")
           /\ Before(After(netloc, "["), "]") \notin Ipv6Literals

PathOf(u) == Before(Before(AfterNetloc(u), "#"), "?")

QueryOf(u) == After(Before(AfterNetloc(u), "#"), "?")

\* SplitResult._hostinfo: the host and the port text of the netloc
HostInfo(u) == AfterLast(NetlocOf(u), "@")

HostText(u) ==
    IF Has(HostInfo(u), "[") THEN Before(After(HostInfo(u), "["), "]")
    ELSE Before(HostInfo(u), ":")

PortText(u) ==
    IF Has(HostInfo(u), "[") THEN After(After(After(HostInfo(u), "["), "]"), ":")
    ELSE After(HostInfo(u), ":")

\* parsed.hostname or ""
HostnameOf(u) == Lower(HostText(u))

MAX_PORT == 65535

\* parsed.port raises ValueError: not digits, or out of range
PortOfRaises(u) ==
    /\ PortText(u) # << >>
    /\ ~IsDigits(PortText(u)) \/ IntOf(PortText(u)) > MAX_PORT

\* parsed.port, with 0 for None
PortOf(u) == IF PortText(u) = << >> THEN 0 ELSE IntOf(PortText(u))

----------------------------------------------------------------------------
(* api_client._normalize_url *)

\* Lines 56-58: strip, and the default scheme.
WithScheme(u) ==
    LET s == Strip(u)
    IN  IF StartsWith(s, HTTP) \/ StartsWith(s, HTTPS) THEN s ELSE HTTP \o s

DROPPED_PORTS == {80, 443}

\* Lines 59-67.
Normalized(u) ==
    LET p == WithScheme(u)
        path == RStrip(PathOf(p), "/")
    IN  SchemeOf(p) \o << ":", "/", "/" >> \o HostnameOf(p)
        \o (IF PortOf(p) # 0 /\ PortOf(p) \notin DROPPED_PORTS
            THEN << ":" >> \o StrOf(PortOf(p)) ELSE << >>)
        \o (IF path = << >> THEN << "/" >> ELSE path)
        \o (IF QueryOf(p) # << >> THEN << "?" >> \o QueryOf(p) ELSE << >>)

\* How a call of a str function ended.
Gave(value) == [kind |-> "return", exc |-> NoExc, value |-> value]

Failed(type, msg) == [kind |-> "raise", exc |-> Exc(type, msg), value |-> << >>]

_normalize_url(u) ==
    IF UrlsplitRaises(WithScheme(u)) THEN Failed("ValueError", "Invalid IPv6 URL")
    ELSE IF PortOfRaises(WithScheme(u)) THEN Failed("ValueError", "Port could not be cast")
    ELSE Gave(Normalized(u))

----------------------------------------------------------------------------
(* heuristic_engine.py. Scores are in millionths of a point. *)

MICRO == 1000000

\* math.log2(k) for k = 1 .. 40, in millionths
LOG2_MICRO ==
    << 0, 1000000, 1584963, 2000000, 2321928, 2584963, 2807355, 3000000,
       3169925, 3321928, 3459432, 3584963, 3700440, 3807355, 3906891, 4000000,
       4087463, 4169925, 4247928, 4321928, 4392317, 4459432, 4523562, 4584963,
       4643856, 4700440, 4754888, 4807355, 4857981, 4906891, 4954196, 5000000,
       5044394, 5087463, 5129283, 5169925, 5209453, 5247928, 5285402, 5321928 >>

SUSPICIOUS_KEYWORDS ==
    { <<"l", "o", "g", "i", "n">>,
      <<"s", "i", "g", "n", "i", "n">>,
      <<"s", "i", "g", "n", "-", "i", "n">>,
      <<"v", "e", "r", "i", "f", "y">>,
      <<"s", "e", "c", "u", "r", "e">>,
      <<"a", "c", "c", "o", "u", "n", "t">>,
      <<"u", "p", "d", "a", "t", "e">>,
      <<"c", "o", "n", "f", "i", "r", "m">>,
      <<"b", "a", "n", "k">>,
      <<"p", "a", "y", "p", "a", "l">>,
      <<"p", "a", "s", "s", "w", "o", "r", "d">>,
      <<"c", "r", "e", "d", "e", "n", "t", "i", "a", "l">>,
      <<"s", "u", "s", "p", "e", "n", "d">>,
      <<"a", "l", "e", "r", "t">>,
      <<"u", "r", "g", "e", "n", "t">>,
      <<"c", "l", "i", "c", "k">>,
      <<"f", "r", "e", "e">>,
      <<"w", "i", "n", "n", "e", "r">>,
      <<"p", "r", "i", "z", "e">>,
      <<"b", "o", "n", "u", "s">>,
      <<"o", "f", "f", "e", "r">>,
      <<"g", "i", "f", "t">>,
      <<"r", "e", "w", "a", "r", "d">>,
      <<"b", "i", "l", "l", "i", "n", "g">>,
      <<"i", "n", "v", "o", "i", "c", "e">>,
      <<"a", "u", "t", "h", "e", "n", "t", "i", "c", "a", "t", "e">>,
      <<"w", "a", "l", "l", "e", "t">>,
      <<"r", "e", "c", "o", "v", "e", "r">>,
      <<"u", "n", "l", "o", "c", "k">>,
      <<"v", "a", "l", "i", "d", "a", "t", "e">>,
      <<"w", "e", "b", "s", "c", "r">>,
      <<"c", "m", "d">>,
      <<"t", "o", "k", "e", "n">>,
      <<"a", "u", "t", "h">>,
      <<"s", "s", "o">>,
      <<"o", "a", "u", "t", "h">> }

\* HIGH_RISK_TLDS, in the order of the dict
HIGH_RISK_TLDS ==
    << <<<<".", "t", "k">>, 8>>,
       <<<<".", "m", "l">>, 8>>,
       <<<<".", "g", "a">>, 8>>,
       <<<<".", "c", "f">>, 8>>,
       <<<<".", "g", "q">>, 8>>,
       <<<<".", "x", "y", "z">>, 6>>,
       <<<<".", "t", "o", "p">>, 6>>,
       <<<<".", "p", "w">>, 7>>,
       <<<<".", "c", "c">>, 5>>,
       <<<<".", "c", "l", "u", "b">>, 5>>,
       <<<<".", "w", "o", "r", "k">>, 5>>,
       <<<<".", "b", "u", "z", "z">>, 6>>,
       <<<<".", "i", "c", "u">>, 6>>,
       <<<<".", "c", "a", "m">>, 5>>,
       <<<<".", "s", "u", "r", "f">>, 5>>,
       <<<<".", "l", "i", "n", "k">>, 4>>,
       <<<<".", "c", "l", "i", "c", "k">>, 5>>,
       <<<<".", "i", "n", "f", "o">>, 3>>,
       <<<<".", "b", "i", "z">>, 3>>,
       <<<<".", "o", "n", "l", "i", "n", "e">>, 4>>,
       <<<<".", "s", "i", "t", "e">>, 4>>,
       <<<<".", "s", "t", "o", "r", "e">>, 3>>,
       <<<<".", "f", "u", "n">>, 4>> >>

\* TARGET_BRANDS, in the order of the dict
TARGET_BRANDS ==
    << [brand |-> <<"f", "a", "c", "e", "b", "o", "o", "k">>,
        variants |-> { <<"f", "a", "c", "e", "b", "0", "0", "k">>, <<"f", "a", "c", "b", "o", "o", "k">>, <<"f", "a", "c", "e", "b", "k">>, <<"f", "b", "-", "l", "o", "g", "i", "n">>, <<"f", "a", "c", "e", "b", "0", "o", "k">> }],
       [brand |-> <<"g", "o", "o", "g", "l", "e">>,
        variants |-> { <<"g", "0", "0", "g", "l", "e">>, <<"g", "o", "g", "l", "e">>, <<"g", "o", "o", "g", "l">>, <<"g", "o", "0", "g", "l", "e">>, <<"g", "o", "o", "g", "1", "e">> }],
       [brand |-> <<"p", "a", "y", "p", "a", "l">>,
        variants |-> { <<"p", "a", "y", "p", "a", "1">>, <<"p", "a", "y", "p", "a", "l", "l">>, <<"p", "a", "y", "-", "p", "a", "l">>, <<"p", "a", "y", "p", "4", "l">> }],
       [brand |-> <<"m", "i", "c", "r", "o", "s", "o", "f", "t">>,
        variants |-> { <<"m", "i", "c", "r", "o", "s", "0", "f", "t">>, <<"m", "i", "c", "r", "o", "s", "f", "t">>, <<"m", "1", "c", "r", "o", "s", "o", "f", "t">>, <<"m", "i", "c", "r", "0", "s", "o", "f", "t">> }],
       [brand |-> <<"a", "p", "p", "l", "e">>,
        variants |-> { <<"a", "p", "p", "1", "e">>, <<"a", "p", "p", "i", "e">>, <<"a", "p", "p", "l", "e", "-", "i", "d">>, <<"a", "p", "p", "l", "3">> }],
       [brand |-> <<"a", "m", "a", "z", "o", "n">>,
        variants |-> { <<"a", "m", "a", "z", "0", "n">>, <<"a", "m", "a", "z", "n">>, <<"a", "r", "n", "a", "z", "o", "n">>, <<"a", "m", "z", "o", "n">> }],
       [brand |-> <<"n", "e", "t", "f", "l", "i", "x">>,
        variants |-> { <<"n", "e", "t", "f", "1", "i", "x">>, <<"n", "e", "t", "f", "l", "e", "x">>, <<"n", "e", "t", "f", "l", "1", "x">> }],
       [brand |-> <<"i", "n", "s", "t", "a", "g", "r", "a", "m">>,
        variants |-> { <<"1", "n", "s", "t", "a", "g", "r", "a", "m">>, <<"i", "n", "s", "t", "a", "g", "r", "a", "n">>, <<"l", "n", "s", "t", "a", "g", "r", "a", "m">> }],
       [brand |-> <<"t", "w", "i", "t", "t", "e", "r">>,
        variants |-> { <<"t", "w", "1", "t", "t", "e", "r">>, <<"t", "v", "v", "i", "t", "t", "e", "r">>, <<"t", "w", "i", "i", "t", "e", "r">> }],
       [brand |-> <<"l", "i", "n", "k", "e", "d", "i", "n">>,
        variants |-> { <<"l", "i", "n", "k", "e", "d", "l", "n">>, <<"l", "1", "n", "k", "e", "d", "i", "n">>, <<"l", "i", "n", "k", "d", "i", "n">> }] >>

\* The keys of HOMOGRAPH_MAP; a character outside ASCII is written U+XXXX.
HOMOGRAPH_CHARS ==
    { "U+0430", "U+0435", "U+043E", "U+0440", "U+0441", "U+0443", "U+0445", "U+04BB", "U+0456", "U+0458", "U+04CF", "U+043D", "U+0455", "U+0442", "U+044A", "U+0432", "U+0448", "U+0437" }

DOMAIN_LEN_OVER == 30
DOMAIN_LEN_STEP_MICRO == 500000
DOMAIN_LEN_CAP == 12
ENTROPY_OVER_MICRO == 3800000
ENTROPY_FACTOR == 8
ENTROPY_CAP == 15
HYPHENS_FROM == 2
HYPHEN_POINTS == 3
HYPHEN_CAP == 12
KEYWORD_POINTS == 4
KEYWORD_CAP == 20
IP_POINTS == 15
SUBDOMAIN_FROM == 3
SUBDOMAIN_FREE == 2
SUBDOMAIN_POINTS == 4
SUBDOMAIN_CAP == 12
HOMOGRAPH_POINTS == 8
HOMOGRAPH_CAP == 20
BRAND_POINTS == 8
BRAND_CAP == 20
NO_HTTPS_POINTS == 5
PATH_DEPTH_OVER == 5
PATH_POINTS == 2
PATH_CAP == 8
AT_POINTS == 10
DIGIT_RATIO_OVER_TENTHS == 3
DIGIT_RATIO_FACTOR == 20
DIGIT_RATIO_CAP == 10
SCORE_MAX == 100
HEUR_SAFE_BELOW == 30
HEUR_SUSPICIOUS_BELOW == 65
TOTAL_CHECKS == 12

\* urllib.parse.unquote, on the escapes that the inputs hold
RECURSIVE Unquote(_)
Unquote(s) ==
    LET escapes ==
            { <<<<"4", "0">>, "@">>, <<<<"2", "F">>, "/">>, <<<<"2", "0">>, " ">>,
              <<<<"5", "B">>, "[">> }
        here == { e \in escapes : Len(s) >= 3 /\ s[1] = "%" /\ <<s[2], s[3]>> = e[1] }
    IN  IF s = << >> THEN << >>
        ELSE IF here # {}
            THEN << (CHOOSE e \in here : TRUE)[2] >> \o Unquote(SubSeq(s, 4, Len(s)))
        ELSE << s[1] >> \o Unquote(Tail(s))

\* Lines 150-152.
Unquoted(u) == WithScheme(Unquote(u))

\* sub in s
Contains(s, sub) ==
    \E i \in 1 .. (Len(s) - Len(sub) + 1) : SubSeq(s, i, i + Len(sub) - 1) = sub

\* s.count(c)
Count(s, c) == Cardinality({ i \in DOMAIN s : s[i] = c })

\* _shannon_entropy: log2(n) - sum(c * log2(c)) / n over the counts c of the
\* characters, in millionths of a bit.
_shannon_entropy(text) ==
    IF text = << >> THEN 0
    ELSE LET n == Len(text)
             total[i \in 0 .. n] ==
                 IF i = 0 THEN 0 ELSE total[i - 1] + LOG2_MICRO[Count(text, text[i])]
         IN  LOG2_MICRO[n] - (total[n] \div n)

\* ^(\d{1,3}\.){3}\d{1,3}$|^\[?[0-9a-fA-F:]+\]?$
_is_ip_address(host) ==
    LET hex == Digit \cup {"a", "b", "c", "d", "e", "f", "A", "B", "C", "D", "E", "F", ":"}
        octet(s) == IsDigits(s) /\ Len(s) <= 3
        ipv4 ==
            /\ Count(host, ".") = 3
            /\ octet(Before(host, "."))
            /\ octet(Before(After(host, "."), "."))
            /\ octet(Before(After(After(host, "."), "."), "."))
            /\ octet(After(After(After(host, "."), "."), "."))
        a == IF host # << >> /\ host[1] = "[" THEN Tail(host) ELSE host
        b == IF a # << >> /\ a[Len(a)] = "]" THEN SubSeq(a, 1, Len(a) - 1) ELSE a
    IN  ipv4 \/ (b # << >> /\ \A i \in DOMAIN b : b[i] \in hex)

\* len(_detect_homographs(domain))
Homographs(domain) == Cardinality({ i \in DOMAIN domain : domain[i] \in HOMOGRAPH_CHARS })

\* len(_detect_brand_spoofing(domain)): one hit for a brand name in a domain
\* whose first label is not the brand, one for every variant in the domain.
BrandHits(domain) ==
    LET d == Lower(domain)
        hits(b) ==
            (IF Contains(d, b.brand) /\ Before(d, ".") # b.brand THEN 1 ELSE 0)
            + Cardinality({ v \in b.variants : Contains(d, v) })
        total[i \in 0 .. Len(TARGET_BRANDS)] ==
            IF i = 0 THEN 0 ELSE total[i - 1] + hits(TARGET_BRANDS[i])
    IN  total[Len(TARGET_BRANDS)]

Check(label, fires, penalty) == [label |-> label, fires |-> fires, penalty |-> penalty]

\* Lines 163-278: the checks in program order, each with the line it adds
\* to reasons and the penalty it adds to score when it fires.
Checks(u) ==
    LET parsed == Unquoted(u)
        host == HostnameOf(parsed)
        path == PathOf(parsed)
        entropy == _shannon_entropy(host)
        hyphens == Count(host, "-")
        full == Lower(host \o path)
        keywords == Cardinality({ kw \in SUSPICIOUS_KEYWORDS : Contains(full, kw) })
        homographs == Homographs(host)
        brands == BrandHits(host)
        ends == { i \in DOMAIN HIGH_RISK_TLDS : EndsWith(host, HIGH_RISK_TLDS[i][1]) }
        tld == IF ends = {} THEN 0 ELSE HIGH_RISK_TLDS[SetMin(ends)][2]
        segments ==
            Cardinality({ i \in DOMAIN path : path[i] # "/" /\ (i = 1 \/ path[i - 1] = "/") })
        digits == Cardinality({ i \in DOMAIN host : host[i] \in Digit })
        depth == IF host # << >> THEN Count(host, ".") - 1 ELSE 0
    IN  << Check("Long domain", Len(host) > DOMAIN_LEN_OVER,
                 Min((Len(host) - DOMAIN_LEN_OVER) * DOMAIN_LEN_STEP_MICRO,
                     DOMAIN_LEN_CAP * MICRO)),
           Check("High entropy", entropy > ENTROPY_OVER_MICRO,
                 Min((entropy - ENTROPY_OVER_MICRO) * ENTROPY_FACTOR, ENTROPY_CAP * MICRO)),
           Check("Multiple hyphens", hyphens >= HYPHENS_FROM,
                 Min(hyphens * HYPHEN_POINTS, HYPHEN_CAP) * MICRO),
           Check("Suspicious keywords", keywords > 0,
                 Min(keywords * KEYWORD_POINTS, KEYWORD_CAP) * MICRO),
           Check("High-risk TLD", tld # 0, tld * MICRO),
           Check("Raw IP address used as host (+15)", _is_ip_address(host),
                 IP_POINTS * MICRO),
           Check("Deep subdomains", depth >= SUBDOMAIN_FROM,
                 Min((depth - SUBDOMAIN_FREE) * SUBDOMAIN_POINTS, SUBDOMAIN_CAP) * MICRO),
           Check("Unicode homograph chars detected", homographs > 0,
                 Min(homographs * HOMOGRAPH_POINTS, HOMOGRAPH_CAP) * MICRO),
           Check("Possible brand spoofing", brands > 0,
                 Min(brands * BRAND_POINTS, BRAND_CAP) * MICRO),
           Check("No HTTPS (+5)", SchemeOf(parsed) # <<"h", "t", "t", "p", "s">>,
                 NO_HTTPS_POINTS * MICRO),
           Check("Deep URL path", segments > PATH_DEPTH_OVER,
                 Min((segments - PATH_DEPTH_OVER) * PATH_POINTS, PATH_CAP) * MICRO),
           Check("URL contains '@' sign (+10)", Has(parsed, "@"), AT_POINTS * MICRO),
           Check("High digit ratio in domain",
                 host # << >> /\ 10 * digits > DIGIT_RATIO_OVER_TENTHS * Len(host),
                 IF host = << >> THEN 0
                 ELSE Min((DIGIT_RATIO_FACTOR * MICRO * digits) \div Len(host),
                          DIGIT_RATIO_CAP * MICRO)) >>

\* The checks that fired, in program order.
Fired(u) == SelectSeq(Checks(u), LAMBDA c : c.fires)

\* Line 281: the sum of the penalties of the checks that fired, clamped.
ClampedScore(fired) ==
    LET total[i \in 0 .. Len(fired)] ==
            IF i = 0 THEN 0 ELSE total[i - 1] + fired[i].penalty
    IN  Max(0, Min(SCORE_MAX * MICRO, total[Len(fired)]))

\* Lines 283-288: the bucket of the score that is not yet rounded.
HeurClassify(score) ==
    IF score < HEUR_SAFE_BELOW * MICRO THEN "Safe"
    ELSE IF score < HEUR_SUSPICIOUS_BELOW * MICRO THEN "Suspicious"
    ELSE "Phishing"

\* Lines 291-293 and 301: round(min(0.5 + (n / 12) * 0.5, 1.0), 3), in thousandths
HeurConfidence(n) == Min(RoundHalfEven(1000 * (TOTAL_CHECKS + n), 2 * TOTAL_CHECKS), 1000)

PLACEHOLDER == "No suspicious indicators detected"

\* A scorer that appends the placeholder whatever fired.
ReasoningAlwaysPlaceholder(fired) ==
    Append([i \in DOMAIN fired |-> fired[i].label], PLACEHOLDER)

\* Lines 295-296 and 303: reasons, or the placeholder when they are empty.
Reasoning(fired) ==
    IF fired = << >> THEN << PLACEHOLDER >> ELSE [i \in DOMAIN fired |-> fired[i].label]

\* Lines 298-305, on a url that urlparse accepts; risk_score in hundredths.
analyze_url(u) ==
    LET fired == Fired(u)
        score == ClampedScore(fired)
    IN  [risk_score |-> RoundHalfEven(score, MICRO \div 100),
         classification |-> HeurClassify(score),
         confidence |-> HeurConfidence(Len(fired)),
         engine |-> "Heuristic Engine v2.0",
         engines |-> 0,
         api_used |-> "absent",
         reasoning |-> Reasoning(fired),
         stats |-> << >>]

\* urlparse(url) in analyze_url and in extract_features raises.
UrlparseRaises(u) == UrlsplitRaises(Unquoted(u))

----------------------------------------------------------------------------
(* The url arguments of the scans *)

PlainUrl == <<"h", "t", "t", "p", ":", "/", "/", "e", "x", "a", "m", "p", "l", "e", ".", "c", "o", "m", "/">>

\* parsed.port raises ValueError on it.
BadPortUrl == <<"h", "t", "t", "p", ":", "/", "/", "e", "x", "a", "m", "p", "l", "e", ".", "c", "o", "m", ":", "x", "/">>

\* urlparse raises ValueError on it.
BadBracketUrl == <<"h", "t", "t", "p", ":", "/", "/", "[", "e", "x", "a", "m", "p", "l", "e", ".", "c", "o", "m", "/">>

Urls == { PlainUrl, BadPortUrl, BadBracketUrl }

_normalize_url_raises(u) == _normalize_url(u).kind = "raise"

\* How a call analyze_url(u) ends: urlparse raises out of it, or line 298
\* returns.
AnalyzeCall(u) ==
    IF UrlparseRaises(u) THEN Failed("ValueError", "Invalid IPv6 URL")
    ELSE Gave(analyze_url(u))

\* analyze_url on the urls of the scans
Analysis == [u \in Urls |-> AnalyzeCall(u)]

\* _normalize_url on the urls of the scans
NormalizeRaises == [u \in Urls |-> _normalize_url_raises(u)]

\* An HTTP exchange: a RequestException, or a status and a body.
Reply(net_error, status, body, stats) ==
    [net_error |-> net_error, status |-> status, body |-> body, stats |-> stats]

NoStats == Stats(0, 0, 0, 0)

NoReply == Reply(FALSE, 0, "", NoStats)

\* What requests.post can bring back. body: "id" holds data.id; "no_id" is
\* JSON without it (KeyError); "not_json" makes .json() raise ValueError;
\* "not_dict" is JSON that is no object, or whose data is no object (TypeError
\* on subscripting).
SubmitResponses ==
    { Reply(TRUE, 0, "", NoStats) } \cup
    { Reply(FALSE, s, "", NoStats) : s \in {204, 401, 429, 500} } \cup
    { Reply(FALSE, s, b, NoStats) : s \in {200, 201}, b \in {"id", "no_id", "not_json", "not_dict"} }

\* The counts a completed analysis reports.
PollStats == { Stats(0, 0, 0, 0), Stats(1, 0, 2, 0), Stats(40, 5, 20, 10) }

\* What requests.get can bring back. body: "completed" and "queued" are the
\* status field; "not_json" makes .json() raise ValueError; "not_dict" is JSON
\* that is no object (AttributeError on .get).
PollResponses ==
    { Reply(TRUE, 0, "", NoStats) } \cup
    { Reply(FALSE, s, "", NoStats) : s \in {201, 404, 500} } \cup
    { Reply(FALSE, 200, b, NoStats) : b \in {"queued", "not_json", "not_dict"} } \cup
    { Reply(FALSE, 200, "completed", st) : st \in PollStats }

\* How a call of scan_url ended (kind "none": it has not), with the failure
\* mode that ended it.
Running == [kind |-> "none", exc |-> NoExc, value |-> EmptyResult, mode |-> ""]

Raised(type, msg, mode) ==
    [kind |-> "raise", exc |-> Exc(type, msg), value |-> EmptyResult, mode |-> mode]

Returned(value) == [kind |-> "return", exc |-> NoExc, value |-> value, mode |-> ""]

SubmitOutcomePolls429(r) ==
    IF r.net_error THEN Raised("RuntimeError", "Network error submitting URL", "network")
    ELSE IF r.status = 401 THEN Raised("RuntimeError", "Invalid VirusTotal API key", "http_401")
    ELSE IF r.status \notin {200, 201, 429}
        THEN Raised("RuntimeError", "VirusTotal submission failed", "http_other")
    ELSE IF r.body \in {"no_id", "not_json"}
        THEN Raised("RuntimeError", "Unexpected response from VirusTotal submission",
                    "bad_submit_body")
    ELSE IF r.body = "not_dict"
        THEN Raised("TypeError", "indices must be integers", "bad_submit_body")
    ELSE Running

\* Lines 102-118: what the submission response makes scan_url do.
SubmitOutcome(r) ==
    IF r.net_error THEN Raised("RuntimeError", "Network error submitting URL", "network")
    ELSE IF r.status = 401 THEN Raised("RuntimeError", "Invalid VirusTotal API key", "http_401")
    ELSE IF r.status = 429
        THEN Raised("RuntimeError", "VirusTotal rate limit exceeded", "http_429")
    ELSE IF r.status \notin {200, 201}
        THEN Raised("RuntimeError", "VirusTotal submission failed", "http_other")
    ELSE IF r.body \in {"no_id", "not_json"}
        THEN Raised("RuntimeError", "Unexpected response from VirusTotal submission",
                    "bad_submit_body")
    ELSE IF r.body = "not_dict"
        THEN Raised("TypeError", "indices must be integers", "bad_submit_body")
    ELSE Running

\* Lines 125-141: what one poll response makes scan_url do (kind "none":
\* go on with the loop).
PollOutcome(r) ==
    IF r.net_error THEN Running
    ELSE IF r.status # 200 THEN Running
    ELSE IF r.body = "not_json" THEN Raised("ValueError", "Expecting value", "bad_poll_body")
    ELSE IF r.body = "not_dict"
        THEN Raised("AttributeError", "object has no attribute 'get'", "bad_poll_body")
    ELSE IF r.body = "completed" THEN Returned(_build_result(r.stats))
    ELSE Running

\* Lines 129-133: a poll that failed (RequestException, or a status other
\* than 200).
PollFailed(r) == r.net_error \/ r.status # 200

\* Line 87.
NotConfigured ==
    Raised("RuntimeError", "VirusTotal API key is not configured", "no_credential")

TimedOutAsSubmission ==
    Raised("RuntimeError", "VirusTotal submission failed", "budget")

\* Line 143.
TimedOut == Raised("RuntimeError", "VirusTotal analysis timed out", "budget")

MoreAttemptsShort(k) == k < POLL_ATTEMPTS - 1

\* `for _ in range(12)` has another iteration.
MoreAttempts(k) == k < POLL_ATTEMPTS

LockIgnored(lock) == TRUE

\* `with _rate_lock:` can be entered.
LockFree(lock) == lock = "free"

LockKeptPastWith(t) == t

\* The lock when thread t leaves the `with _rate_lock:` block.
LockAfterWith(t) == "free"

----------------------------------------------------------------------------
(* ml_engine.py, heuristic_engine.py: the other two engines, as far as the *)
(* orchestrator depends on them                                            *)

\* predict_proba's phishing probability, in hundredths of a percent.
MlProbabilities == {2999, 3000, 6500}

MlClassify(risk_score) ==
    IF risk_score < 100 * ML_SAFE_BELOW THEN "Safe"
    ELSE IF risk_score < 100 * ML_SUSPICIOUS_BELOW THEN "Suspicious"
    ELSE "Phishing"

predict(p) ==
    [risk_score |-> p,
     classification |-> MlClassify(p),
     confidence |-> RoundHalfEven(Max(p, 10000 - p), 10),
     engine |-> "ML RandomForest v1.0",
     engines |-> 0,
     api_used |-> "absent",
     reasoning |-> << "feature importances" >>,
     stats |-> << >>]

\* Lines 349-357 of scanner_tab.py: the degraded result.
ErrorResult(e) ==
    [risk_score |-> 0,
     classification |-> "Error",
     confidence |-> 0,
     engine |-> "N/A",
     engines |-> 0,
     api_used |-> "absent",
     reasoning |-> << e.msg >>,
     stats |-> << >>]

----------------------------------------------------------------------------
(* The state machine *)

\* The thread ScannerTab._start_scan starts.
Scanners == {"t1"}

KeyStates == {"unset", "short", "valid"}

\* By how much a sleep may return late, while the budget lasts.
Lateness == IF late < MaxLate THEN {0, 1} ELSE {0}

\* No engine of this _run_scan has returned a result yet.
NoProduct == [engine |-> "", value |-> EmptyResult]

\* The engine that returned the result that _run_scan keeps.
Product(engine, value) == [engine |-> engine, value |-> value]

\* The function under study has not been called.
NotCalled == [kind |-> "none", exc |-> NoExc, value |-> << >>]

\* The last _RATE_LIMIT + 1 admissions, oldest first.
PushRecent(r, e) == IF Len(r) <= _RATE_LIMIT THEN Append(r, e) ELSE Append(Tail(r), e)

InitCommon ==
    /\ clock = 0
    /\ late = 0
    /\ api_key \in KeyStates
    /\ _model = FALSE
    /\ _request_times = << >>
    /\ _rate_lock = "free"
    /\ recent = << >>
    /\ admitted = 0
    /\ pc = [t \in Threads |-> "idle"]
    /\ caller = [t \in Threads |-> ""]
    /\ url = [t \in Threads |-> << >>]
    /\ calls = 0
    /\ abandoned = [t \in Threads |-> -1]
    /\ _scanning = FALSE
    /\ queued = 0
    /\ now = [t \in Threads |-> 0]
    /\ wake = [t \in Threads |-> 0]
    /\ waited = [t \in Threads |-> FALSE]
    /\ attempt = [t \in Threads |-> 0]
    /\ reply = [t \in Threads |-> NoReply]
    /\ swallowed = [t \in Threads |-> FALSE]
    /\ outcome = [t \in Threads |-> Running]
    /\ acquired = [t \in Threads |-> 0]
    /\ delays = [t \in Threads |-> 0]
    /\ polls = [t \in Threads |-> 0]
    /\ posts = [t \in Threads |-> 0]
    /\ result = [t \in Threads |-> EmptyResult]
    /\ emitted = [t \in Threads |-> << >>]
    /\ escaped = [t \in Threads |-> NoExc]
    /\ built = EmptyResult
    /\ invoked = [t \in Threads |-> << >>]
    /\ produced = [t \in Threads |-> NoProduct]
    /\ norm_out = NotCalled
    /\ norm_again = NotCalled
    /\ heur_out = NotCalled

Init == InitCommon /\ stats_in = Stats(0, 0, 0, 0) /\ norm_in = << >> /\ heur_in = << >>

\* A call starts: everything local to the previous call of the thread is gone.
Begin(t, who, u, at) ==
    /\ pc[t] \in {"idle", "done"}
    /\ calls < MaxCalls
    /\ calls' = calls + 1
    /\ abandoned' = [abandoned EXCEPT ![t] = -1]
    /\ _scanning' = (_scanning \/ who = "_run_scan")
    /\ UNCHANGED queued
    /\ pc' = [pc EXCEPT ![t] = at]
    /\ caller' = [caller EXCEPT ![t] = who]
    /\ url' = [url EXCEPT ![t] = u]
    /\ attempt' = [attempt EXCEPT ![t] = 0]
    /\ outcome' = [outcome EXCEPT ![t] = Running]
    /\ UNCHANGED reply
    /\ swallowed' = [swallowed EXCEPT ![t] = FALSE]
    /\ acquired' = [acquired EXCEPT ![t] = 0]
    /\ delays' = [delays EXCEPT ![t] = 0]
    /\ polls' = [polls EXCEPT ![t] = 0]
    /\ posts' = [posts EXCEPT ![t] = 0]
    /\ result' = [result EXCEPT ![t] = EmptyResult]
    /\ emitted' = [emitted EXCEPT ![t] = << >>]
    /\ escaped' = [escaped EXCEPT ![t] = NoExc]
    /\ invoked' = [invoked EXCEPT ![t] = << >>]
    /\ produced' = [produced EXCEPT ![t] = NoProduct]
    /\ UNCHANGED << timeVars, envVars, limiterVars, waitVars, pureVars >>

\* _start_scan line 300, negated: `if self._scanning: ... return`
CanStartAlways(scanning) == TRUE

CanStart(scanning) == ~scanning

\* ScannerTab._start_scan (the url is not empty): unless a scan is in
\* progress, set _scanning and start the thread that runs _run_scan(url).
StartScan(t, u) == CanStart(_scanning) /\ Begin(t, "_run_scan", u, "run_scan")

\* Some other caller of the module-level function calls scan_url(url).
CallScanUrl(t, u) == Begin(t, "direct", u, "scan_url")

\* scanner_tab.py line 318: `if api_key_available():`
RunScanCredential(t) ==
    /\ pc[t] = "run_scan"
    /\ pc' = [pc EXCEPT ![t] = IF api_key_available(api_key) THEN "scan_url" ELSE "ml"]
    /\ invoked' = [invoked EXCEPT ![t] =
                     IF api_key_available(api_key) THEN Append(@, "scan_url") ELSE @]
    /\ UNCHANGED << timeVars, envVars, limiterVars, callVars, waitVars, scanVars,
                    runVars, pureVars, produced >>

\* api_client.py lines 85-90: the credential, the normalisation, and on to
\* the rate limiter.
ScanUrlEnter(t) ==
    /\ pc[t] = "scan_url"
    /\ IF _get_api_key(api_key) = "None"
        THEN /\ outcome' = [outcome EXCEPT ![t] = NotConfigured]
             /\ pc' = [pc EXCEPT ![t] = "scan_end"]
        ELSE IF NormalizeRaises[url[t]]
        THEN /\ outcome' = [outcome EXCEPT ![t] =
                    Raised("ValueError", "invalid url", "bad_url")]
             /\ pc' = [pc EXCEPT ![t] = "scan_end"]
        ELSE /\ outcome' = outcome
             /\ pc' = [pc EXCEPT ![t] = "rl_lock"]
    /\ UNCHANGED << timeVars, envVars, limiterVars, callVars, waitVars, attempt,
                    reply, swallowed, acquired, delays, polls, posts, runVars,
                    pureVars, engineVars >>

\* _rate_limit_wait lines 43-50: take the lock, read the clock, prune, and
\* either go to sleep (still holding the lock) or go on to the append.
RlAcquire(t) ==
    /\ pc[t] = "rl_lock"
    /\ LockFree(_rate_lock)
    /\ _rate_lock' = t
    /\ now' = [now EXCEPT ![t] = clock]
    /\ LET pruned == Prune(_request_times, clock)
           sleeps == AtCapacity(pruned) /\ SleepTime(pruned, clock) > 0
       IN  /\ _request_times' = pruned
           /\ waited' = [waited EXCEPT ![t] = sleeps]
           /\ wake' = [wake EXCEPT ![t] =
                         IF sleeps THEN clock + SleepTime(pruned, clock) ELSE clock]
           /\ pc' = [pc EXCEPT ![t] = IF sleeps THEN "rl_sleep" ELSE "rl_append"]
    /\ UNCHANGED << timeVars, envVars, recent, admitted, callVars, scanVars, runVars,
                    pureVars, engineVars >>

\* A time.sleep that ends at wake[t] returns: on time, or late.
SleepReturns(t, cap) ==
    \E l \in Lateness :
        /\ clock' = Max(clock, wake[t]) + l
        /\ clock' <= cap
        /\ late' = late + l

\* _rate_limit_wait line 50: time.sleep(sleep_time) returns.
RlSleep(t, cap) ==
    /\ pc[t] = "rl_sleep"
    /\ SleepReturns(t, cap)
    /\ pc' = [pc EXCEPT ![t] = "rl_append"]
    /\ UNCHANGED << envVars, limiterVars, callVars, waitVars, scanVars, runVars,
                    pureVars, engineVars >>

\* _rate_limit_wait line 51: record the admission and leave the `with` block.
RlAppend(t) ==
    /\ pc[t] = "rl_append"
    /\ _request_times' = Append(_request_times, clock)
    /\ _rate_lock' = LockAfterWith(t)
    /\ recent' = PushRecent(recent, [time |-> clock, waited |-> waited[t]])
    /\ admitted' = Min(admitted + 1, _RATE_LIMIT + 2)
    /\ acquired' = [acquired EXCEPT ![t] = @ + 1]
    /\ now' = [now EXCEPT ![t] = 0]
    /\ wake' = [wake EXCEPT ![t] = 0]
    /\ waited' = [waited EXCEPT ![t] = FALSE]
    /\ pc' = [pc EXCEPT ![t] = IF caller[t] = "_rate_limit_wait" THEN "done"
                               ELSE IF attempt[t] = 0 THEN "post" ELSE "get"]
    /\ UNCHANGED << timeVars, envVars, callVars, attempt, reply, swallowed, outcome,
                    delays, polls, posts, runVars, pureVars, engineVars >>

\* scan_url lines 95-103: requests.post comes back.
Post(t, responses) ==
    /\ pc[t] = "post"
    /\ posts' = [posts EXCEPT ![t] = @ + 1]
    /\ \E r \in responses : reply' = [reply EXCEPT ![t] = r]
    /\ pc' = [pc EXCEPT ![t] = "posted"]
    /\ UNCHANGED << timeVars, envVars, limiterVars, callVars, waitVars, attempt,
                    swallowed, outcome, acquired, delays, polls, runVars,
                    pureVars, engineVars >>

\* scan_url lines 102-123: what the submission response leads to: an
\* exception, or the first iteration of the poll loop and its time.sleep(5).
Submitted(t) ==
    /\ pc[t] = "posted"
    /\ reply' = [reply EXCEPT ![t] = NoReply]
    /\ IF SubmitOutcome(reply[t]).kind = "raise"
        THEN /\ outcome' = [outcome EXCEPT ![t] = SubmitOutcome(reply[t])]
             /\ pc' = [pc EXCEPT ![t] = "scan_end"]
             /\ UNCHANGED << attempt, wake >>
        ELSE /\ attempt' = [attempt EXCEPT ![t] = 1]
             /\ wake' = [wake EXCEPT ![t] = clock + Ticks(POLL_SLEEP)]
             /\ pc' = [pc EXCEPT ![t] = "poll_delay"]
             /\ UNCHANGED outcome
    /\ UNCHANGED << timeVars, envVars, limiterVars, callVars, now, waited, swallowed,
                    acquired, delays, polls, posts, runVars, pureVars, engineVars >>

\* scan_url line 123: time.sleep(5) returns.
PollDelay(t, cap) ==
    /\ pc[t] = "poll_delay"
    /\ SleepReturns(t, cap)
    /\ delays' = [delays EXCEPT ![t] = @ + 1]
    /\ wake' = [wake EXCEPT ![t] = 0]
    /\ pc' = [pc EXCEPT ![t] = "rl_lock"]
    /\ UNCHANGED << envVars, limiterVars, callVars, now, waited, attempt, reply,
                    swallowed, outcome, acquired, polls, posts, runVars,
                    pureVars, engineVars >>

\* scan_url lines 125-130: requests.get comes back.
Get(t, responses) ==
    /\ pc[t] = "get"
    /\ polls' = [polls EXCEPT ![t] = @ + 1]
    /\ \E r \in responses : reply' = [reply EXCEPT ![t] = r]
    /\ pc' = [pc EXCEPT ![t] = "got"]
    /\ UNCHANGED << timeVars, envVars, limiterVars, callVars, waitVars, attempt,
                    swallowed, outcome, acquired, delays, posts, runVars,
                    pureVars, engineVars >>

\* scan_url lines 129-143: what the poll response leads to: the result, an
\* exception, the next iteration and its time.sleep(5), or the end of the
\* loop.
Polled(t) ==
    /\ pc[t] = "got"
    /\ reply' = [reply EXCEPT ![t] = NoReply]
    /\ swallowed' = [swallowed EXCEPT ![t] = @ \/ PollFailed(reply[t])]
    /\ IF PollOutcome(reply[t]).kind # "none"
        THEN /\ outcome' = [outcome EXCEPT ![t] = PollOutcome(reply[t])]
             /\ pc' = [pc EXCEPT ![t] = "scan_end"]
             /\ UNCHANGED << attempt, wake >>
        ELSE IF MoreAttempts(attempt[t])
        THEN /\ attempt' = [attempt EXCEPT ![t] = @ + 1]
             /\ wake' = [wake EXCEPT ![t] = clock + Ticks(POLL_SLEEP)]
             /\ pc' = [pc EXCEPT ![t] = "poll_delay"]
             /\ UNCHANGED outcome
        ELSE /\ outcome' = [outcome EXCEPT ![t] = TimedOut]
             /\ pc' = [pc EXCEPT ![t] = "scan_end"]
             /\ UNCHANGED << attempt, wake >>
    /\ UNCHANGED << timeVars, envVars, limiterVars, callVars, now, waited, acquired, delays, polls, posts, runVars, pureVars, engineVars >>

\* scan_url is over. A direct caller has its outcome; _run_scan (lines
\* 319-324) keeps the result, or catches the exception and sets result = {}.
ScanEnd(t) ==
    /\ pc[t] = "scan_end"
    /\ IF caller[t] = "direct"
        THEN /\ pc' = [pc EXCEPT ![t] = "done"]
             /\ UNCHANGED << result, produced >>
        ELSE /\ pc' = [pc EXCEPT ![t] = "ml"]
             /\ result' = [result EXCEPT ![t] =
                             IF outcome[t].kind = "return" THEN outcome[t].value
                             ELSE EmptyResult]
             /\ produced' = [produced EXCEPT ![t] =
                               IF outcome[t].kind = "return"
                               THEN Product("scan_url", outcome[t].value) ELSE @]
    /\ UNCHANGED << timeVars, envVars, limiterVars, callVars, waitVars, scanVars,
                    emitted, escaped, pureVars, invoked >>

\* The call sites the `try:` of _run_scan (lines 316-347) encloses.
TrySites == {"api_key_available", "scan_url", "model_available", "predict",
             "analyze_url", "insert_scan"}

InTryWithoutPersist(site) == site \in TrySites \ {"insert_scan"}

InTry(site) == site \in TrySites

\* An exception e raised at `site` in _run_scan: the handler of lines 349-358
\* replaces the result, or the exception leaves _run_scan before line 360.
Throw(t, site, e) ==
    IF InTry(site)
    THEN /\ result' = [result EXCEPT ![t] = ErrorResult(e)]
         /\ pc' = [pc EXCEPT ![t] = "emit"]
         /\ UNCHANGED escaped
    ELSE /\ escaped' = [escaped EXCEPT ![t] = e]
         /\ pc' = [pc EXCEPT ![t] = "done"]
         /\ UNCHANGED result

\* _run_scan lines 326-331: the statistical model, when no result yet.
\* model_available() loads the model file once and caches it; predict raises
\* when extract_features cannot parse the url or the model object fails.
\* extract_features parses the url with the statements analyze_url parses it
\* with (unquote, strip, scheme prefix, urlparse), so it raises on the urls
\* on which analyze_url raises.
Ml(t) ==
    /\ pc[t] = "ml"
    /\ IF result[t] # EmptyResult
        THEN /\ pc' = [pc EXCEPT ![t] = "heuristic"]
             /\ UNCHANGED << result, escaped, _model, engineVars >>
        ELSE \E loads \in BOOLEAN :
                /\ _model' = (_model \/ loads)
                /\ IF ~_model'
                    THEN /\ pc' = [pc EXCEPT ![t] = "heuristic"]
                         /\ UNCHANGED << result, escaped, engineVars >>
                    ELSE /\ invoked' = [invoked EXCEPT ![t] = Append(@, "predict")]
                         /\ \E fails \in {Analysis[url[t]].kind = "raise", TRUE}, p \in MlProbabilities :
                            IF fails
                            THEN /\ Throw(t, "predict", Exc("ValueError", "predict failed"))
                                 /\ UNCHANGED produced
                            ELSE /\ result' = [result EXCEPT ![t] =
                                                [predict(p) EXCEPT !.api_used = "false"]]
                                 /\ produced' = [produced EXCEPT ![t] =
                                                   Product("predict", predict(p))]
                                 /\ pc' = [pc EXCEPT ![t] = "heuristic"]
                                 /\ UNCHANGED escaped
    /\ UNCHANGED << timeVars, api_key, limiterVars, callVars, waitVars, scanVars,
                    emitted, pureVars >>

\* _run_scan lines 333-336: the heuristic scorer, when no result yet.
Heuristic(t) ==
    /\ pc[t] = "heuristic"
    /\ IF result[t] # EmptyResult
        THEN /\ pc' = [pc EXCEPT ![t] = "persist"]
             /\ UNCHANGED << result, escaped, engineVars >>
        ELSE /\ invoked' = [invoked EXCEPT ![t] = Append(@, "analyze_url")]
             /\ \E call \in {Analysis[url[t]]} :
                IF call.kind = "raise"
                THEN /\ Throw(t, "analyze_url", call.exc)
                     /\ UNCHANGED produced
                ELSE /\ result' = [result EXCEPT ![t] =
                                     [call.value EXCEPT !.api_used = "false"]]
                     /\ produced' = [produced EXCEPT ![t] =
                                       Product("analyze_url", call.value)]
                     /\ pc' = [pc EXCEPT ![t] = "persist"]
                     /\ UNCHANGED escaped
    /\ UNCHANGED << timeVars, envVars, limiterVars, callVars, waitVars, scanVars,
                    emitted, pureVars >>

\* _run_scan lines 339-347: insert_scan stores the result, or raises.
Persist(t) ==
    /\ pc[t] = "persist"
    /\ \E stored \in BOOLEAN :
        IF stored
        THEN /\ pc' = [pc EXCEPT ![t] = "emit"]
             /\ UNCHANGED << result, escaped >>
        ELSE Throw(t, "insert_scan", Exc("sqlite3.Error", "database is locked"))
    /\ UNCHANGED << timeVars, envVars, limiterVars, callVars, waitVars, scanVars,
                    emitted, pureVars, engineVars >>

\* _run_scan line 360: self.result_ready.emit(result)
Emit(t) ==
    /\ pc[t] = "emit"
    /\ emitted' = [emitted EXCEPT ![t] = Append(@, result[t])]
    /\ queued' = queued + 1
    /\ pc' = [pc EXCEPT ![t] = "done"]
    /\ UNCHANGED << timeVars, envVars, limiterVars, caller, url, calls, abandoned,
                    _scanning, waitVars, scanVars, result, escaped, pureVars,
                    engineVars >>

\* The event loop of the window delivers a queued result_ready signal to the
\* slot connected at line 167: _display_result line 365.
DisplayResult ==
    /\ queued > 0
    /\ queued' = queued - 1
    /\ _scanning' = FALSE
    /\ UNCHANGED << timeVars, envVars, limiterVars, pc, caller, url, calls, abandoned,
                    waitVars, scanVars, runVars, engineVars, pureVars >>

\* The program: the thread that the scanner tab starts, one scan at a time,
\* runs _run_scan.
Next ==
    \/ DisplayResult
    \/ \E t \in Scanners :
        \/ \E u \in Urls : StartScan(t, u)
        \/ RunScanCredential(t)
        \/ ScanUrlEnter(t)
        \/ RlAcquire(t)
        \/ RlSleep(t, MaxClock)
        \/ RlAppend(t)
        \/ Post(t, SubmitResponses)
        \/ Submitted(t)
        \/ PollDelay(t, MaxClock)
        \/ Get(t, PollResponses)
        \/ Polled(t)
        \/ ScanEnd(t)
        \/ Ml(t)
        \/ Heuristic(t)
        \/ Persist(t)
        \/ Emit(t)

Spec == Init /\ [][Next]_vars

\* Callers of the module-level scan_url that run concurrently and contend for
\* the rate limiter.
PairSubmitResponses == { r \in SubmitResponses : r.status \in {200, 401} /\ r.body \in {"", "id"} }

PairPollResponses ==
    { r \in PollResponses : r.body \in {"queued", "completed"} /\ r.stats = NoStats }

NextPair ==
    \E t \in Threads :
        \/ CallScanUrl(t, PlainUrl)
        \/ ScanUrlEnter(t)
        \/ RlAcquire(t)
        \/ RlSleep(t, MaxClockPair)
        \/ RlAppend(t)
        \/ Post(t, PairSubmitResponses)
        \/ Submitted(t)
        \/ PollDelay(t, MaxClockPair)
        \/ Get(t, PairPollResponses)
        \/ Polled(t)
        \/ ScanEnd(t)

InitPair == Init /\ api_key \in {"unset", "valid"}

SpecPair == InitPair /\ [][NextPair]_vars

\* A thread calls _rate_limit_wait() and nothing else.
WaitCall(t) ==
    /\ pc[t] \in {"idle", "done"}
    /\ calls < MaxWaits
    /\ calls' = calls + 1
    /\ caller' = [caller EXCEPT ![t] = "_rate_limit_wait"]
    /\ pc' = [pc EXCEPT ![t] = "rl_lock"]
    /\ UNCHANGED << timeVars, envVars, limiterVars, url, abandoned, _scanning, queued,
                    waitVars, scanVars, runVars, engineVars, pureVars >>

\* Time enough for MaxWaits calls: only a call that finds the window full
\* sleeps, for one window and the margin at most.
WaitCap == Max(0, MaxWaits - _RATE_LIMIT) * (Ticks(_RATE_WINDOW) + MARGIN_TICKS) + MaxLate

NextWait ==
    \E t \in Threads :
        \/ WaitCall(t)
        \/ RlAcquire(t)
        \/ RlSleep(t, WaitCap)
        \/ RlAppend(t)

\* A fair lock: a thread that finds the lock free again and again gets it.
\* An advancing clock: a sleep returns. A running thread takes its next step.
FairWait ==
    \A t \in Threads :
        /\ SF_vars(RlAcquire(t))
        /\ WF_vars(RlSleep(t, WaitCap))
        /\ WF_vars(RlAppend(t))

\* Concurrent callers of _rate_limit_wait under a fair lock.
InitWait == Init /\ api_key = "unset"

SpecWait == InitWait /\ [][NextWait]_vars /\ FairWait

\* Thread t is in the poll loop of scan_url (lines 122-141).
InPollLoop(t) == attempt[t] >= 1 /\ pc[t] \in {"poll_delay", "rl_lock", "rl_sleep", "rl_append", "get", "got"}

\* The caller of scan_url stops waiting for it: the window is closed, or the
\* thread that _start_scan started (line 310) is left to itself. scan_url
\* takes no token, flag or event, and no statement of the loop reads one:
\* nothing of the call changes.
Abandon(t) ==
    /\ InPollLoop(t)
    /\ abandoned[t] = -1
    /\ abandoned' = [abandoned EXCEPT ![t] = acquired[t] + polls[t]]
    /\ UNCHANGED << timeVars, envVars, limiterVars, pc, caller, url, calls, _scanning,
                    queued, waitVars, scanVars, runVars, engineVars, pureVars >>

\* One caller of scan_url that may abandon the call.
NextCancel ==
    \E t \in Scanners :
        \/ CallScanUrl(t, PlainUrl)
        \/ ScanUrlEnter(t)
        \/ RlAcquire(t)
        \/ RlSleep(t, MaxClockPair)
        \/ RlAppend(t)
        \/ Post(t, PairSubmitResponses)
        \/ Submitted(t)
        \/ PollDelay(t, MaxClockPair)
        \/ Get(t, PairPollResponses)
        \/ Polled(t)
        \/ ScanEnd(t)
        \/ Abandon(t)

SpecCancel == InitPair /\ [][NextCancel]_vars

\* Time enough for MaxCalls scans: a scan_url sleeps POLL_ATTEMPTS times for
\* POLL_SLEEP seconds and waits for the limiter POLL_ATTEMPTS + 1 times, each
\* time for one window and the margin at most.
TabCap ==
    MaxCalls * (POLL_ATTEMPTS * Ticks(POLL_SLEEP)
                + (POLL_ATTEMPTS + 1) * (Ticks(_RATE_WINDOW) + MARGIN_TICKS)) + MaxLate

\* The statements of _run_scan (lines 313-360) and of the scan_url it calls.
RunScanStep(t) ==
    \/ RunScanCredential(t)
    \/ ScanUrlEnter(t)
    \/ RlAcquire(t)
    \/ RlSleep(t, TabCap)
    \/ RlAppend(t)
    \/ Post(t, PairSubmitResponses)
    \/ Submitted(t)
    \/ PollDelay(t, TabCap)
    \/ Get(t, PairPollResponses)
    \/ Polled(t)
    \/ ScanEnd(t)
    \/ Ml(t)
    \/ Heuristic(t)
    \/ Persist(t)
    \/ Emit(t)

\* The scanner tab: each press of the button calls _start_scan, which may
\* start a new thread; the event loop delivers the results.
NextTab ==
    \/ DisplayResult
    \/ \E t \in Threads :
        \/ StartScan(t, PlainUrl)
        \/ RunScanStep(t)

\* A started thread runs on: requests return (timeout=30, lines 100 and 127),
\* sleeps end, and nobody else holds the lock for ever. The event loop runs.
FairTab ==
    /\ WF_vars(DisplayResult)
    /\ \A t \in Threads : WF_vars(RunScanStep(t))

SpecTab == InitPair /\ [][NextTab]_vars /\ FairTab

----------------------------------------------------------------------------
(* _build_result as a function of its argument *)

Counts == (0 .. MaxCount) \cup {29, CONFIDENCE_SCALE \div 2, CONFIDENCE_SCALE}

StatsInputs == { Stats(m, s, h, u) : m \in Counts, s \in Counts, h \in Counts, u \in Counts }

InitBuild == InitCommon /\ stats_in \in StatsInputs /\ norm_in = << >> /\ heur_in = << >>

\* One call _build_result(url, stats_in).
BuildResult ==
    /\ built = EmptyResult
    /\ built' = _build_result(stats_in)
    /\ UNCHANGED << timeVars, envVars, limiterVars, pc, callVars, waitVars, scanVars,
                    runVars, engineVars, stats_in, normVars, heurVars >>

NextBuild == BuildResult

SpecBuild == InitBuild /\ [][NextBuild]_vars

----------------------------------------------------------------------------
(* _normalize_url alone, and applied to its own return value *)

UrlPrefixes ==
    { <<>>,
      <<"h", "t", "t", "p", ":", "/", "/">>,
      <<"h", "t", "t", "p", "s", ":", "/", "/">>,
      <<"H", "T", "T", "P", ":", "/", "/">> }

UrlUserinfos ==
    { <<>>,
      <<"u", "@">> }

UrlHosts ==
    { <<"a", ".", "c", "o", "m">>,
      <<"A", ".", "c", "o", "m">>,
      <<"[", ":", ":", "1", "]">>,
      <<"[", "a", ".", "c", "o", "m">> }

UrlPorts ==
    { <<>>,
      <<":", "8", "0">>,
      <<":", "4", "4", "3">>,
      <<":", "8", "0", "8", "0">>,
      <<":", "0">>,
      <<":", "x">>,
      <<":", "9", "9", "9", "9", "9">> }

UrlPaths ==
    { <<>>,
      <<"/">>,
      <<"/", "p">>,
      <<"/", "p", "/">>,
      <<"/", "p", " ", "/">> }

UrlTails ==
    { <<>>,
      <<"?", "q">>,
      <<"#", "f">> }

NormInputs ==
    { a \o b \o c \o d \o e \o f :
        a \in UrlPrefixes, b \in UrlUserinfos, c \in UrlHosts, d \in UrlPorts,
        e \in UrlPaths, f \in UrlTails }

InitNorm ==
    /\ InitCommon
    /\ stats_in = Stats(0, 0, 0, 0)
    /\ heur_in = << >>
    /\ norm_in \in NormInputs

Normalize ==
    /\ norm_out = NotCalled
    /\ norm_out' = _normalize_url(norm_in)
    /\ UNCHANGED << timeVars, envVars, limiterVars, pc, callVars, waitVars, scanVars,
                    runVars, engineVars, buildVars, heurVars, norm_in, norm_again >>

NormalizeAgain ==
    /\ norm_out.kind = "return"
    /\ norm_again = NotCalled
    /\ norm_again' = _normalize_url(norm_out.value)
    /\ UNCHANGED << timeVars, envVars, limiterVars, pc, callVars, waitVars, scanVars,
                    runVars, engineVars, buildVars, heurVars, norm_in, norm_out >>

NextNorm == Normalize \/ NormalizeAgain

SpecNorm == InitNorm /\ [][NextNorm]_vars

----------------------------------------------------------------------------
(* analyze_url as a pure function: SpecHeur applies it to one url. *)

\* The arguments: an optional scheme, optional userinfo, a host that makes
\* each check of the host fire or not, and a path with keywords, an at sign,
\* depth or percent escapes.
HeurInputs ==
    LET
        prefixes ==
            { <<>>,
              <<"h", "t", "t", "p", ":", "/", "/">>,
              <<"h", "t", "t", "p", "s", ":", "/", "/">> }
        userinfos ==
            { <<>>,
              <<"u", "@">> }
        hosts ==
            { <<"e", "x", "a", "m", "p", "l", "e", ".", "c", "o", "m">>,
              <<"p", "a", "y", "p", "a", "1", "-", "s", "e", "c", "u", "r", "e", "-", "l", "o", "g", "i", "n", ".", "t", "k">>,
              <<"q", "z", "q", "z", "x", "-", "b", "d", "f", "g", "h", "-", "j", "m", "n", "r", "v", "w", "y", "c", "q", "z", "q", "z", "x", "q", "z", "x", ".", "t", "k">>,
              <<"d", "e", "a", "d", "b", "e", "e", "f">>,
              <<"1", "9", "2", ".", "1", "6", "8", ".", "0", ".", "1">>,
              <<"[", ":", ":", "1", "]">>,
              <<"[", "a", ".", "c", "o", "m">>,
              <<>>,
              <<"a", ".", "b", ".", "c", ".", "d", ".", "e", ".", "c", "o", "m">>,
              <<"1", "2", "3", "4", "5", "6", ".", "c", "o", "m">>,
              <<"U+0430", "p", "p", "l", "e", ".", "c", "o", "m">>,
              <<"g", "o", "o", "g", "l", "e", ".", "c", "o", "m">>,
              <<"s", "e", "c", "u", "r", "e", "-", "g", "o", "o", "g", "l", "e", ".", "c", "o", "m">>,
              <<"a", "b", "c", "d", "e", "f", "g", "h", "i", "j", "k", "l", "m", "n", "o", "p", "q", "r", "s", "t", "u", "v", "w", "x", "y", "z", "0", "1", "2", "3", "4", "5", "6", "7", "8", "9", ".", "x", "y", "z">>,
              <<"9", "9", "9", ".", "9", "9", "9", ".", "9", "9", "9", ".", "9", "9", "9">> }
        paths ==
            { <<>>,
              <<"/">>,
              <<"/", "v", "e", "r", "i", "f", "y", "/", "a", "c", "c", "o", "u", "n", "t", "/", "u", "p", "d", "a", "t", "e">>,
              <<"/", "c", "m", "d", "@", "x">>,
              <<"/", "a", "/", "b", "/", "c", "/", "d", "/", "e", "/", "f", "/", "g">>,
              <<"/", "%", "4", "0">>,
              <<"/", "%", "2", "F", "%", "2", "F", "a", "/">>,
              <<"/", "p", " ">> }
    IN  { a \o b \o c \o d : a \in prefixes, b \in userinfos, c \in hosts, d \in paths }

\* The urls that the description of analyze_url names.
ExampleUrl ==
    <<"h", "t", "t", "p", "s", ":", "/", "/", "e", "x", "a", "m", "p", "l", "e", ".", "c", "o", "m">>

PaypalLookalikeUrl ==
    <<"h", "t", "t", "p", ":", "/", "/", "p", "a", "y", "p", "a", "1", "-", "s", "e", "c", "u", "r", "e", "-", "l", "o", "g", "i", "n", ".", "t", "k", "/", "v", "e", "r", "i", "f", "y", "/", "a", "c", "c", "o", "u", "n", "t", "/", "u", "p", "d", "a", "t", "e">>

\* analyze_url reads no credential: one key state is enough.
InitHeur ==
    /\ InitCommon
    /\ api_key = "unset"
    /\ stats_in = Stats(0, 0, 0, 0)
    /\ norm_in = << >>
    /\ heur_in \in HeurInputs

\* One call analyze_url(heur_in): urlparse raises out of it, or line 298 returns.
Analyze ==
    /\ heur_out.kind = "none"
    /\ heur_out' = AnalyzeCall(heur_in)
    /\ UNCHANGED << timeVars, envVars, limiterVars, pc, callVars, waitVars, scanVars,
                    runVars, engineVars, buildVars, normVars, heur_in >>

NextHeur == Analyze

SpecHeur == InitHeur /\ [][NextHeur]_vars

----------------------------------------------------------------------------
(* The rate limiter *)

Window == Ticks(_RATE_WINDOW)

\* Thread t is between the prune and the append of _rate_limit_wait.
InCS(t) == pc[t] \in {"rl_sleep", "rl_append"}

\* C1: with any number of concurrent callers, in any interleaving, every
\* rolling 60-second interval [s, s + 60) holds at most 4 admission
\* timestamps: any _RATE_LIMIT + 1 admissions in a row span at least the window.
C1_AtMostFourPerWindow ==
    \A i \in DOMAIN recent, j \in DOMAIN recent :
        j - i >= _RATE_LIMIT => recent[j].time - recent[i].time >= Window

\* Both callers have been admitted, and a fifth admission came after a wait
\* that ended exactly when the first left the window, plus the margin.
C1_Witness ==
    /\ Len(recent) = _RATE_LIMIT + 1
    /\ recent[_RATE_LIMIT + 1].waited
    /\ recent[_RATE_LIMIT + 1].time - recent[1].time = Window + MARGIN_TICKS
    /\ \A t \in Threads : acquired[t] > 0

\* C2: from an empty limiter, the first 4 acquisitions are admitted without
\* waiting; the 5th, when it starts while the 1st admission is still in the
\* window, sleeps until the 1st admission has left the window plus the
\* margin, and its timestamp is at least 60 s later than the 1st.
C2_FifthAcquisitionWaits ==
    /\ admitted <= _RATE_LIMIT => \A i \in DOMAIN recent : ~recent[i].waited
    /\ \A t \in Threads :
        /\ InCS(t) /\ admitted < _RATE_LIMIT => ~waited[t]
        /\ InCS(t) /\ admitted = _RATE_LIMIT /\ now[t] - recent[1].time < Window
            => waited[t] /\ wake[t] = recent[1].time + Window + MARGIN_TICKS
    /\ admitted = _RATE_LIMIT + 1 =>
        /\ recent[_RATE_LIMIT + 1].time - recent[1].time >= Window
        /\ recent[_RATE_LIMIT + 1].waited =>
            recent[_RATE_LIMIT + 1].time - recent[1].time >= Window + MARGIN_TICKS

\* Five acquisitions five seconds apart: the fifth has waited.
C2_Witness ==
    /\ admitted = _RATE_LIMIT + 1
    /\ recent[_RATE_LIMIT + 1].waited
    /\ recent[_RATE_LIMIT].time - recent[1].time < Window
    /\ \A i \in 1 .. _RATE_LIMIT : ~recent[i].waited

\* C3: prune, capacity check, wait and record are one critical section: at
\* most one caller is inside it, that caller holds _rate_lock, and while it
\* stays inside (sleeping included) no step changes _request_times.
C3_CriticalSection ==
    [][ /\ \A t \in Threads : InCS(t)' => _rate_lock' = t
        /\ \A t \in Threads, o \in Threads : InCS(t)' /\ InCS(o)' => t = o
        /\ \A t \in Threads : InCS(t) /\ InCS(t)' => _request_times' = _request_times
      ]_vars

\* One caller sleeps inside the critical section while the other waits for
\* the lock.
C3_Witness ==
    \E t \in Threads, o \in Threads : pc[t] = "rl_sleep" /\ pc[o] = "rl_lock"

----------------------------------------------------------------------------
(* The reputation client *)

\* The submission was rejected: 401, 429, another status the code rejects,
\* or a network error.
SubmissionRejected(r) == r.net_error \/ r.status \notin {200, 201}

\* scan_url has ended for thread t.
ScanOver(t) == outcome[t].kind # "none"

\* C4: when the submission POST fails, scan_url ends with an error, having
\* issued no poll GET and acquired no rate-limiter slot beyond the one of the
\* submission; and nothing is issued or acquired after scan_url has ended.
C4_RejectedSubmissionEndsCall ==
    [][ \A t \in Threads :
          /\ pc[t] = "posted" /\ pc'[t] # "posted" /\ SubmissionRejected(reply[t])
              => /\ pc'[t] = "scan_end"
                 /\ outcome'[t].kind = "raise"
                 /\ polls'[t] = 0 /\ delays'[t] = 0
                 /\ acquired'[t] = 1 /\ posts'[t] = 1
          /\ ScanOver(t) /\ ScanOver(t)'
              => /\ polls'[t] = polls[t] /\ delays'[t] = delays[t]
                 /\ acquired'[t] = acquired[t] /\ posts'[t] = posts[t]
      ]_vars

\* _run_scan is over after a submission that was answered 429.
C4_Witness ==
    \E t \in Threads :
        /\ pc[t] = "done"
        /\ outcome[t].mode = "http_429"
        /\ polls[t] = 0 /\ acquired[t] = 1

\* The error kind the specification names for a failure mode.
ClaimedKind(mode) ==
    CASE mode = "no_credential" -> "NotConfigured"
      [] mode = "http_401" -> "AuthError"
      [] mode = "http_429" -> "RateLimited"
      [] mode \in {"http_other", "network"} -> "SubmissionFailed"
      [] mode = "budget" -> "TimedOut"
      [] OTHER -> "none"

\* The ways scan_url fails that the specification names.
DefinedFailures ==
    { o \in { SubmitOutcome(r) : r \in SubmitResponses } \cup { NotConfigured, TimedOut } :
        o.kind = "raise" /\ ClaimedKind(o.mode) # "none" }

C6_TimedOutAfterTwelvePolls ==
    \A t \in Threads :
        outcome[t].kind = "raise" /\ attempt[t] >= 1 =>
            /\ outcome[t] = TimedOut
            /\ polls[t] = POLL_ATTEMPTS
            /\ delays[t] = POLL_ATTEMPTS
            /\ acquired[t] = POLL_ATTEMPTS + 1

\* A poll that brought a network error or a status that is not 2xx.
PollErrored(r) == r.net_error \/ r.status < 200 \/ r.status > 299

PollCompleted(r) == ~r.net_error /\ r.status = 200 /\ r.body = "completed"

\* C7: a network error or a non-2xx response on poll attempt k < 12 does not
\* end the job: it uses up one attempt and the loop goes on; and the attempt
\* that reports completed ends the call with the result built from that
\* attempt's statistics.
C7_PollFailurePassedOver ==
    [][ \A t \in Threads :
          pc[t] = "got" /\ pc'[t] # "got" =>
            /\ PollErrored(reply[t]) /\ attempt[t] < POLL_ATTEMPTS
                => /\ pc'[t] = "poll_delay"
                   /\ attempt'[t] = attempt[t] + 1
                   /\ polls'[t] = attempt[t]
                   /\ outcome'[t].kind = "none"
            /\ PollCompleted(reply[t])
                => /\ pc'[t] = "scan_end"
                   /\ attempt[t] <= POLL_ATTEMPTS
                   /\ outcome'[t] = Returned(_build_result(reply[t].stats))
      ]_vars

\* A failed poll was passed over and the twelfth attempt brought the result.
C7_Witness ==
    \E t \in Threads :
        /\ swallowed[t]
        /\ outcome[t].kind = "return"
        /\ polls[t] = POLL_ATTEMPTS

----------------------------------------------------------------------------
(* _build_result *)

Abs(x) == IF x >= 0 THEN x ELSE -x

\* x is n / d rounded to the nearest integer, a tie going to the even one.
Nearest(x, n, d) ==
    /\ 2 * Abs(x * d - n) <= d
    /\ 2 * Abs(x * d - n) = d => x % 2 = 0

Detections(stats) == stats.malicious + stats.suspicious

Detectors(stats) ==
    IF stats.malicious + stats.suspicious + stats.harmless + stats.undetected = 0 THEN 1
    ELSE stats.malicious + stats.suspicious + stats.harmless + stats.undetected

\* C8 as stated: risk_score is 100 x (malicious + suspicious) / total and
\* confidence is min(total / 70, 1.0), exactly; api_used is true and
\* risk_score lies in [0, 100].
C8_ExactRatio ==
    built # EmptyResult =>
        /\ built.risk_score * Detectors(stats_in) = 10000 * Detections(stats_in)
        /\ built.confidence * CONFIDENCE_SCALE
             = 1000 * Min(Detectors(stats_in), CONFIDENCE_SCALE)
        /\ built.api_used = "true"
        /\ built.risk_score >= 0 /\ built.risk_score <= 10000

\* C8, amended: risk_score is 100 x (malicious + suspicious) / total rounded
\* to two decimals and confidence is min(total / 70, 1.0) rounded to three;
\* api_used is true and risk_score lies in [0, 100].
C8_RoundedRatio ==
    built # EmptyResult =>
        /\ Nearest(built.risk_score, 10000 * Detections(stats_in), Detectors(stats_in))
        /\ Nearest(built.confidence, 1000 * Min(Detectors(stats_in), CONFIDENCE_SCALE),
                   CONFIDENCE_SCALE)
        /\ built.api_used = "true"
        /\ built.risk_score >= 0 /\ built.risk_score <= 10000

\* One detection among three detectors: 33.33 and 0.043.
C8_Witness ==
    /\ stats_in = Stats(1, 0, 2, 0)
    /\ built.risk_score = 3333
    /\ built.confidence = 43

\* C9 as stated: the classification of a reputation result is the bucket of
\* its risk_score under the thresholds of the heuristic scorer: Safe below
\* 30, Suspicious from 30 to below 65, Phishing from 65.
C9_SharedThresholds ==
    built # EmptyResult =>
        /\ built.classification = "Safe" <=> built.risk_score < 3000
        /\ built.classification = "Suspicious"
             <=> (built.risk_score >= 3000 /\ built.risk_score < 6500)
        /\ built.classification = "Phishing" <=> built.risk_score >= 6500

----------------------------------------------------------------------------
(* The orchestrator *)

\* C10: every call of _run_scan ends by emitting exactly one result through
\* result_ready, whichever of the engines and the persistence step raise; no
\* exception leaves _run_scan, and nothing is emitted before the end.
C10_ExactlyOneResult ==
    \A t \in Threads :
        caller[t] = "_run_scan" =>
            /\ escaped[t] = NoExc
            /\ Len(emitted[t]) = IF pc[t] = "done" THEN 1 ELSE 0

\* The reputation client raised, an engine produced a result, insert_scan
\* raised: one result was emitted.
C10_Witness ==
    \E t \in Threads :
        /\ pc[t] = "done"
        /\ outcome[t].kind = "raise"
        /\ Len(emitted[t]) = 1
        /\ emitted[t][1].reasoning = << "database is locked" >>

----------------------------------------------------------------------------
(* Engine selection *)

\* The orders in which _run_scan may call its engines.
EngineOrders ==
    { << >>, <<"scan_url">>, <<"predict">>, <<"analyze_url">>,
      <<"scan_url", "predict">>, <<"scan_url", "analyze_url">>,
      <<"predict", "analyze_url">>, <<"scan_url", "predict", "analyze_url">> }

Invoked(t, engine) == \E i \in DOMAIN invoked[t] : invoked[t][i] = engine

\* Results that differ at most in the api_used flag the orchestrator adds.
SameButApiUsed(a, b) == [a EXCEPT !.api_used = ""] = [b EXCEPT !.api_used = ""]

\* What _run_scan makes of the heuristic result for the url of thread t.
HeuristicResult(t) == [Analysis[url[t]].value EXCEPT !.api_used = "false"]

\* The engines are called in order, each only when the ones before it gave
\* no result, and none after one that did.
EngineOrder(t) ==
    /\ invoked[t] \in EngineOrders
    /\ Invoked(t, "scan_url") => api_key_available(api_key)
    /\ Invoked(t, "predict") => ~Invoked(t, "scan_url") \/ outcome[t].kind = "raise"
    /\ Invoked(t, "analyze_url") => produced[t].engine \in {"", "analyze_url"}
    /\ produced[t].engine # "" => invoked[t][Len(invoked[t])] = produced[t].engine

\* C11 as stated: the engines are tried in the order reputation client,
\* statistical model, heuristic scorer, each only when the earlier ones were
\* not called or gave no result; after the first result no engine is
\* called, and the result _run_scan returns is that engine's output.
C11_FirstSuccessWins ==
    \A t \in Threads :
        caller[t] = "_run_scan" =>
            /\ EngineOrder(t)
            /\ pc[t] = "done" /\ produced[t].engine # ""
                => SameButApiUsed(emitted[t][1], produced[t].value)

\* C12 as stated: when scan_url raised one of its defined errors and the
\* model is unavailable, _run_scan returns what analyze_url returns for the
\* url, with api_used = false.
C12_FallbackEqualsHeuristic ==
    \A t \in Threads :
        /\ caller[t] = "_run_scan" /\ pc[t] = "done"
        /\ outcome[t] \in DefinedFailures
        /\ ~_model
        => emitted[t][1] = HeuristicResult(t)

\* C13 as stated: when the model is available and predict raises, _run_scan
\* goes on to the heuristic scorer and returns its result.
C13_PredictFailureFallsThrough ==
    \A t \in Threads :
        /\ caller[t] = "_run_scan" /\ pc[t] = "done"
        /\ Invoked(t, "predict") /\ produced[t].engine # "predict"
        => /\ Invoked(t, "analyze_url")
           /\ emitted[t][1] = HeuristicResult(t)

\* C14 as stated: _run_scan returns the Error result only if every engine
\* raised (none gave a result and the heuristic scorer, the last one, was
\* tried); when an engine gave a result, that result is returned, whatever
\* insert_scan does afterwards.
C14_ErrorOnlyAsLastResort ==
    \A t \in Threads :
        caller[t] = "_run_scan" /\ pc[t] = "done" =>
            /\ emitted[t][1].classification = "Error"
                => produced[t].engine = "" /\ Invoked(t, "analyze_url")
            /\ produced[t].engine # ""
                => SameButApiUsed(emitted[t][1], produced[t].value)

----------------------------------------------------------------------------
(* _normalize_url *)

\* C15 as stated: _normalize_url is idempotent: applied to a str it has
\* returned, it returns that str again.
C15_Idempotent == norm_again # NotCalled => norm_again = norm_out

\* C16 as stated: _normalize_url is total: whatever the port and the
\* brackets of the host, it returns and never raises.
C16_Total == norm_out.kind # "raise"

\* The port is the default one of the scheme.
IsDefaultPort(scheme, port) ==
    \/ scheme = <<"h", "t", "t", "p">> /\ port = 80
    \/ scheme = <<"h", "t", "t", "p", "s">> /\ port = 443

\* C17 as stated: an explicit port is dropped exactly when it is the default
\* of the url's own scheme (80 for http, 443 for https), and every other
\* explicit port is kept in the output (hosts without brackets).
C17_DefaultPortOnly ==
    LET p == WithScheme(norm_in) IN
    /\ norm_out.kind = "return"
    /\ PortText(p) # << >>
    /\ ~Has(HostInfo(p), "[")
    => IF IsDefaultPort(SchemeOf(p), PortOf(p))
       THEN PortText(norm_out.value) = << >>
       ELSE PortText(norm_out.value) = StrOf(PortOf(p))

----------------------------------------------------------------------------
(* analyze_url *)

\* The bucket of a reported risk_score, in hundredths.
BucketOf(risk) ==
    IF risk < HEUR_SAFE_BELOW * 100 THEN "Safe"
    ELSE IF risk < HEUR_SUSPICIOUS_BELOW * 100 THEN "Suspicious"
    ELSE "Phishing"

\* C18: whenever analyze_url returns, the returned risk_score lies in
\* [0, 100] and the returned classification is the bucket of that returned,
\* rounded risk_score (Safe below 30, Suspicious from 30 and below 65,
\* Phishing from 65).
C18_BucketOfReportedScore ==
    heur_out.kind = "return"
        => /\ heur_out.value.risk_score \in 0 .. SCORE_MAX * 100
           /\ heur_out.value.classification = BucketOf(heur_out.value.risk_score)

\* The labels of the checks that fired in the call under study.
FiredLabels == { Fired(heur_in)[i].label : i \in DOMAIN Fired(heur_in) }

\* C19: on "http://paypa1-secure-login.tk/verify/account/update" the keyword
\* check, the brand-spoofing check and the high-risk-TLD check fire, the
\* score is at least 65 and the classification is Phishing.
C19_PaypalLookalikeIsPhishing ==
    (heur_in = PaypalLookalikeUrl /\ heur_out.kind = "return")
        => /\ {"Suspicious keywords", "Possible brand spoofing", "High-risk TLD"}
                \subseteq FiredLabels
           /\ heur_out.value.risk_score >= HEUR_SUSPICIOUS_BELOW * 100
           /\ heur_out.value.classification = "Phishing"

\* C20: when no check fires the returned reasoning is the placeholder line
\* alone, the classification is Safe, the risk_score is 0 and the confidence
\* is exactly 0.5; when a check fires the placeholder is not in the
\* reasoning.
C20_PlaceholderIffNothingFired ==
    heur_out.kind = "return"
        => LET r == heur_out.value
           IN  IF Fired(heur_in) = << >>
               THEN /\ r.reasoning = << PLACEHOLDER >>
                    /\ r.classification = "Safe"
                    /\ r.risk_score = 0
                    /\ r.confidence = 500
               ELSE \A i \in DOMAIN r.reasoning : r.reasoning[i] # PLACEHOLDER

\* analyze_url("https://example.com") has returned and no check fired.
C20_Witness ==
    /\ heur_in = ExampleUrl
    /\ heur_out.kind = "return"
    /\ Fired(heur_in) = << >>
    /\ heur_out.value.reasoning = << PLACEHOLDER >>

\* The reasons of the returned result, the placeholder aside.
ReportedReasons ==
    { heur_out.value.reasoning[i] : i \in DOMAIN heur_out.value.reasoning } \ { PLACEHOLDER }

\* The number of the twelve numbered checks among the reported reasons:
\* check 11 reports the path depth and the at sign, and counts once.
NumberedChecksFired ==
    Cardinality(ReportedReasons \ { "URL contains '@' sign (+10)" })
    + (IF "URL contains '@' sign (+10)" \in ReportedReasons
          /\ "Deep URL path" \notin ReportedReasons THEN 1 ELSE 0)

\* C21: the returned confidence is 0.5 + 0.5 * (n / 12) capped at 1.0, to
\* the three decimals that are returned, where n is the number of the twelve
\* numbered checks that fired and check 11 counts at most once; it is 1.0
\* only when all twelve fired.
C21_ConfidenceOfNumberedChecks ==
    heur_out.kind = "return"
        => /\ heur_out.value.confidence
                = Min(RoundHalfEven(1000 * (TOTAL_CHECKS + NumberedChecksFired),
                                    2 * TOTAL_CHECKS), 1000)
           /\ heur_out.value.confidence = 1000 => NumberedChecksFired = TOTAL_CHECKS

\* C22: analyze_url returns a result on every input and never raises.
C22_NeverRaises == heur_out.kind # "raise"

\* A dotted quad of decimal numbers up to 255.
IsIpv4Literal(host) ==
    LET part(s) == IsDigits(s) /\ Len(s) <= 3 /\ IntOf(s) <= 255
    IN  /\ Count(host, ".") = 3
        /\ part(Before(host, "."))
        /\ part(Before(After(host, "."), "."))
        /\ part(Before(After(After(host, "."), "."), "."))
        /\ part(After(After(After(host, "."), "."), "."))

\* C27: the IP penalty of check 6 is added if and only if the host is an
\* IPv4 or IPv6 literal; an ordinary name, also a dot-free one made of the
\* letters a-f and digits, does not get it.
C27_IpPenaltyIffLiteral ==
    heur_out.kind = "return"
        => ("Raw IP address used as host (+15)" \in ReportedReasons
                <=> LET host == HostnameOf(Unquoted(heur_in))
                    IN  IsIpv4Literal(host) \/ host \in Ipv6Literals)

----------------------------------------------------------------------------
(* The rate limiter and the reputation client, continued *)

\* Thread t is in a network request of scan_url or in its inter-poll delay.
InRequestOrDelay(t) == pc[t] \in {"post", "get", "poll_delay"}

\* C24: _rate_lock is never held by a caller that is in a network request
\* (POST or GET) or in the 5-second inter-poll delay of scan_url: a caller
\* holds it only inside _rate_limit_wait.
C24_LockOnlyInsideRateLimitWait ==
    \A t \in Threads :
        /\ InRequestOrDelay(t) => _rate_lock # t
        /\ _rate_lock = t => InCS(t)

\* One caller is in a request or in the delay while the other has taken the
\* lock.
C24_Witness ==
    \E t \in Threads, o \in Threads :
        t # o /\ InRequestOrDelay(t) /\ pc[t] = "get" /\ _rate_lock = o

\* C25: at the end of every _rate_limit_wait call _request_times is in
\* non-decreasing order, every stored timestamp is less than 60 s older than
\* the newest one, and there are never more than 4 entries.
C25_WindowedAndBounded ==
    /\ Len(_request_times) <= _RATE_LIMIT
    /\ \A i \in DOMAIN _request_times, j \in DOMAIN _request_times :
          i <= j => _request_times[i] <= _request_times[j]
    /\ _rate_lock = "free" =>
          \A i \in DOMAIN _request_times :
              _request_times[Len(_request_times)] - _request_times[i] < Window

\* C28: scan_url ends only with a result or with one of the five defined
\* errors, which are the RuntimeErrors it raises itself; and once the
\* submission succeeded no response ends it with an error before the 12
\* polls are spent.
C28_SixEndings ==
    \A t \in Threads :
        ScanOver(t) =>
            \/ outcome[t].kind = "return"
            \/ /\ outcome[t].exc.type = "RuntimeError"
               /\ attempt[t] >= 1 => polls[t] = POLL_ATTEMPTS

\* When the submission of the scan_url of thread t was admitted and sent:
\* the first of the admissions of this call, as long as it is among the
\* recorded ones. The model spends no time in a request.
SubmittedAt(t) == recent[Len(recent) - acquired[t] + 1].time

\* C26: from the successful submission to the result or the TimedOut error
\* no more than 60 s elapse, network time aside. Stated on the calls of the
\* one scanner thread that end within the recorded admissions.
C26_PollingWithinSixtySeconds ==
    \A t \in Scanners :
        /\ pc[t] = "scan_end"
        /\ attempt[t] >= 1
        /\ outcome[t].kind = "return" \/ outcome[t] = TimedOut
        /\ acquired[t] <= Len(recent)
        => clock - SubmittedAt(t) <= Ticks(_RATE_WINDOW)

\* C23: once the caller has abandoned an in-flight scan_url, the poll loop
\* stops within one retry delay: that call makes at most one more poll
\* attempt or rate-limiter acquisition.
C23_AbandonedLoopStops ==
    \A t \in Threads :
        abandoned[t] >= 0 => acquired[t] + polls[t] <= abandoned[t] + 1

\* C29: with a fair lock and an advancing clock every call of
\* _rate_limit_wait returns with its admission recorded, and the sleep of a
\* caller that holds the lock is never longer than 60.5 s.
C29_EveryWaitReturns ==
    \A t \in Threads :
        /\ [](pc[t] = "rl_sleep" => wake[t] - now[t] <= Window + MARGIN_TICKS)
        /\ \A k \in 0 .. MaxWaits :
              (pc[t] = "rl_lock" /\ acquired[t] = k) ~> (pc[t] = "done" /\ acquired[t] = k + 1)

\* A caller that had to sleep has been admitted while the other caller was
\* waiting for the lock.
C29_Witness ==
    \E t \in Threads, o \in Threads :
        /\ pc[t] = "done" /\ pc[o] = "rl_lock"
        /\ admitted > _RATE_LIMIT
        /\ recent[Len(recent)].waited

----------------------------------------------------------------------------
(* The scanner tab *)

\* The thread runs a _run_scan that has not emitted its result yet.
InFlight(t) == caller[t] = "_run_scan" /\ pc[t] \notin {"idle", "done"}

ScansInFlight == { t \in Threads : InFlight(t) }

\* At most one scan is in flight, and while one is, _scanning is true.
OneScanAtATime ==
    /\ Cardinality(ScansInFlight) <= 1
    /\ ScansInFlight # {} => _scanning

\* _scanning becomes true only together with the start of a thread, and only
\* from false; it becomes false only when a result that was emitted is
\* delivered, with no scan in flight.
ScanningChanges ==
    /\ (\E t \in Threads : ~InFlight(t) /\ InFlight(t)') => ~_scanning /\ _scanning'
    /\ ~_scanning /\ _scanning' => \E t \in Threads : ~InFlight(t) /\ InFlight(t)'
    /\ _scanning /\ ~_scanning' =>
          /\ queued > 0 /\ queued' = queued - 1
          /\ ScansInFlight = {}

\* C30: in the scanner tab at most one scan is in flight at any time; a
\* _run_scan thread starts only when _scanning is false, and that sets it to
\* true; _scanning returns to false only in _display_result, after the thread
\* emitted its result; every started scan emits a result, and _scanning does
\* not stay true for ever.
C30_OneScanInFlight ==
    /\ []OneScanAtATime
    /\ [][ScanningChanges]_vars
    /\ \A t \in Threads : InFlight(t) ~> (pc[t] = "done" /\ Len(emitted[t]) = 1)
    /\ _scanning ~> ~_scanning

\* A second scan runs, started after the result of the first was displayed,
\* while the button is pressed again.
C30_Witness ==
    /\ calls = 2
    /\ _scanning
    /\ \E t \in Threads : InFlight(t) /\ attempt[t] >= 1

====
